---- MODULE Spec2Model ----
(***************************************************************************)
(* Segment scheduling and timer execution of the session timer:            *)
(* SegmentManager (src/src/segmentManager.js, first variant, lines 1-444), *)
(* TimerCore (src/src/coreTimer.js, first variant, lines 1-438), the       *)
(* single-timer loader URLParser.parseSingleTimer (src/unnamed/part_004)   *)
(* and the browser's timers and wall clock they run on.                    *)
(*                                                                         *)
(* A time string "HH:MM" is kept as its two numeric fields [h, m]; an      *)
(* optional value (null / undefined) is the empty sequence and a present   *)
(* value v is <<v>>.  The wall clock is in seconds since midnight.         *)
(***************************************************************************)
EXTENDS Integers, Sequences, FiniteSets, TLC

\* ----------------------------------------------------------------- bounds
\* outstanding deferred-start timeouts (setTimeout 100 ms) at any one time
MaxTimeouts == 2
\* outstanding post-completion re-evaluation timeouts (setTimeout 1000 ms)
MaxReticks == 1
\* listeners registered on the message bus at any one time
MaxListeners == 3
\* one-shot subscriptions made on the message bus
MaxOnce == 1

\* ------------------------------------------------------------ time values
HM(h, m) == [h |-> h, m |-> m]

\* the wall-clock instant hh:mm:00, in seconds since midnight
At(h, m) == h * 3600 + m * 60

\* the instants at which the model observes the wall clock, in two sessions of
\* use: one around 10:00 and one around 15:00
Morning == { At(9, 45), At(10, 0), At(10, 5), At(10, 20), At(10, 25), At(10, 40) }

Afternoon == { At(14, 30), At(15, 0), At(15, 30) }

\* the session an instant belongs to
sessionOf(clk) == IF clk \in Morning THEN Morning ELSE Afternoon

\* now.getHours() * 60 + now.getMinutes()
minutesOfDay(clk) == clk \div 60

\* Date.now()
nowMs(clk) == clk * 1000

\* new Date().toTimeString().substr(0, 5), and `${hh}:${mm}` of a Date
clockTimeStr(clk) == HM(clk \div 3600, (clk \div 60) % 60)

\* JavaScript's % : the result takes the sign of the dividend
jsRem(a, b) == IF a >= 0 THEN a % b ELSE -((-a) % b)

\* SegmentManager.parseTime
parseTime(timeStr) == timeStr.h * 60 + timeStr.m

\* `${String(startHours).padStart(2,'0')}:${String(startMinutes).padStart(2,'0')}`
\* with startHours = Math.floor(t / 60) % 24, startMinutes = t % 60
startTimeStr(t) == HM(jsRem(t \div 60, 24), jsRem(t, 60))

\* the whole minutes of x seconds, plus one
minutesPlusOne(sec) == sec \div 60 + 1

\* Math.round(x / 60) for x >= 0 (halves round up)
roundMinutes(sec) == (sec + 30) \div 60

\* --------------------------------------------------- configuration payloads
\* one entry of config.segments
Seg(time, duration, mode) == [time |-> time, duration |-> duration, mode |-> mode]

\* Array.prototype.sort by hours * 60 + minutes (stable): seg is put behind the
\* entries of sorted that are not later than it
insertByTime(sorted, seg) ==
  LET k == Cardinality({i \in 1..Len(sorted) :
                          parseTime(sorted[i].time) <= parseTime(seg.time)})
  IN SubSeq(sorted, 1, k) \o <<seg>> \o SubSeq(sorted, k + 1, Len(sorted))

RECURSIVE sortByTime(_)
sortByTime(segs) ==
  IF Len(segs) = 0 THEN <<>>
  ELSE insertByTime(sortByTime(SubSeq(segs, 1, Len(segs) - 1)), segs[Len(segs)])

\* URLParser.parseMultipleSegments for well-formed entries, given in the order
\* of the URL: the payload carries them sorted by time
MultiConfig(segs) ==
  [ segments |-> sortByTime(segs), segmentDuration |-> 0, countDown |-> TRUE,
    autoStart |-> <<>>, manualStart |-> FALSE, urlStartTime |-> <<>>,
    originalTime |-> <<>> ]

\* URLParser.parseSingleTimer for a well-formed s=<flag>,<HH:MM>,<minutes>
parseSingleTimer(flag, providedTime, durationMinutes, modeParam) ==
  LET autoStart == flag = "a"
      manualStart == flag = "m"
      countDown == modeParam # "up"
      urlDuration == durationMinutes * 60
      \* Date arithmetic wraps over midnight
      startOfDay == (parseTime(providedTime) - durationMinutes) % 1440
      urlStartTime == IF countDown
                        THEN HM(startOfDay \div 60, startOfDay % 60)
                        ELSE providedTime
  IN [ segments |-> <<>>, segmentDuration |-> urlDuration, countDown |-> countDown,
       autoStart |-> IF autoStart /\ ~manualStart THEN <<urlStartTime>> ELSE <<>>,
       manualStart |-> manualStart, urlStartTime |-> <<urlStartTime>>,
       originalTime |-> <<providedTime>> ]

\* a payload with neither segments nor segmentDuration
EmptyConfig ==
  [ segments |-> <<>>, segmentDuration |-> 0, countDown |-> TRUE,
    autoStart |-> <<>>, manualStart |-> FALSE, urlStartTime |-> <<>>,
    originalTime |-> <<>> ]

\* the payloads config:ready carries in the model, by session
MorningConfigs ==
  { MultiConfig(<<Seg(HM(10, 0), 20, "down")>>),
    MultiConfig(<<Seg(HM(10, 20), 20, "up"), Seg(HM(10, 0), 20, "down")>>),
    MultiConfig(<<Seg(HM(9, 0), 20, "up"), Seg(HM(10, 0), 20, "down")>>),
    parseSingleTimer("m", HM(10, 0), 20, "down"),
    EmptyConfig }

AfternoonConfigs ==
  { MultiConfig(<<Seg(HM(15, 0), 30, "down")>>),
    MultiConfig(<<Seg(HM(15, 0), 30, "up")>>),
    parseSingleTimer("a", HM(15, 0), 30, "down"),
    parseSingleTimer("a", HM(15, 0), 30, "up") }

Configs(clk) == IF clk \in Morning THEN MorningConfigs ELSE AfternoonConfigs

\* ----------------------------------------------------------------- state
VARIABLES
  \* SegmentManager
  segments, currentSegmentIndex, isActive, scheduleStarted, userPaused,
  segmentActivated, tickInterval, autoStartTimeout, timerRunning,
  \* TimerCore
  running, manualRun, segmentStartMs, segmentDurationSec, countDown, autoStartTime,
  autostartDone,
  \* the event loop: pending deferred starts (by handle), pending re-evaluation
  \* timeouts, live 1 Hz intervals, and the wall clock
  timeouts, reticks, intervals, clock,
  \* what the last step was and the events it published, in order; the payload
  \* of the last config:ready; whether the last step was a user start that
  \* directly followed a user stop; what the state before the last step was
  lastOp, emitted, loadedConfig, resumed, before,
  \* the EventBus: its listener lists, and what its last operation did
  bus

vars ==
  << segments, currentSegmentIndex, isActive, scheduleStarted, userPaused,
     segmentActivated, tickInterval, autoStartTimeout, timerRunning,
     running, manualRun, segmentStartMs, segmentDurationSec, countDown, autoStartTime,
     autostartDone,
     timeouts, reticks, intervals, clock, lastOp, emitted, loadedConfig, resumed,
     before, bus >>

\* the state as one record, on which the handlers are written
State ==
  [ segments |-> segments, currentSegmentIndex |-> currentSegmentIndex,
    isActive |-> isActive, scheduleStarted |-> scheduleStarted,
    userPaused |-> userPaused, segmentActivated |-> segmentActivated,
    tickInterval |-> tickInterval, autoStartTimeout |-> autoStartTimeout,
    timerRunning |-> timerRunning,
    running |-> running, manualRun |-> manualRun, segmentStartMs |-> segmentStartMs,
    segmentDurationSec |-> segmentDurationSec, countDown |-> countDown,
    autoStartTime |-> autoStartTime, autostartDone |-> autostartDone,
    timeouts |-> timeouts, reticks |-> reticks, intervals |-> intervals,
    clock |-> clock, emitted |-> <<>>, loadedConfig |-> loadedConfig ]

\* eventBus.emit reaching no handler of the core: the event is only recorded
publish(s, name, payload) ==
  [s EXCEPT !.emitted = Append(@, [name |-> name, payload |-> payload])]

\* ------------------------------------------------- reading the last step
\* the positions in the last step's publications of the event called name
positionsOf(name) == {i \in 1..Len(emitted) : emitted[i].name = name}

published(name) == positionsOf(name) # {}

\* the payload of the first publication of name in the last step
payloadOf(name) == emitted[CHOOSE i \in positionsOf(name) : \A j \in positionsOf(name) : i <= j].payload

\* this.segmentActivated[i], undefined read as false
flagAt(flags, i) == i < Len(flags) /\ flags[i + 1]

\* the steps in which SegmentManager.tick runs on its own
TickOps == {"tick", "retick"}

\* ------------------------------------------------------------- TimerCore
\* TimerCore.configure, the handler of timer:configure
configure(s, config) ==
  LET t == [s EXCEPT
              !.segmentDurationSec =
                 IF config.segmentDuration = 0 THEN 2400 ELSE config.segmentDuration,
              !.countDown = config.countDown,
              !.autoStartTime = config.autoStart]
  IN publish(t, "timer:configured",
             [segmentDuration |-> t.segmentDurationSec, countDown |-> t.countDown,
              autoStart |-> t.autoStartTime])

\* TimerCore.startSegmentNow, then SegmentManager's timer:started handler
startSegmentNow(s, isManual) ==
  LET t == [s EXCEPT !.manualRun = isManual,
                     !.segmentStartMs = <<nowMs(s.clock)>>,
                     !.running = TRUE]
      u == publish(t, "timer:started",
                   [time |-> clockTimeStr(s.clock), manual |-> isManual])
  IN [u EXCEPT !.timerRunning = TRUE]

\* stopSegment that keeps the run's start instant and manual mark, and falls
\* back to the default duration
stopSegment_keepsRunState(s) ==
  LET t == [s EXCEPT !.running = FALSE, !.segmentDurationSec = 2400]
      u == publish(t, "timer:stopped", <<>>)
  IN [u EXCEPT !.timerRunning = FALSE]

\* TimerCore.stopSegment, then SegmentManager's timer:stopped handler
stopSegment(s) ==
  LET t == [s EXCEPT !.running = FALSE, !.manualRun = FALSE, !.segmentStartMs = <<>>]
      u == publish(t, "timer:stopped", <<>>)
  IN [u EXCEPT !.timerRunning = FALSE]

\* elapsedSec without Math.max(0, ...)
elapsedSec_signed(s) == (nowMs(s.clock) - s.segmentStartMs[1]) \div 1000

\* elapsed seconds of the run as drawTimerArc computes them
elapsedSec(s) ==
  LET e == (nowMs(s.clock) - s.segmentStartMs[1]) \div 1000
  IN IF e > 0 THEN e ELSE 0

clamped(s) ==
  IF elapsedSec(s) < s.segmentDurationSec THEN elapsedSec(s) ELSE s.segmentDurationSec

\* ---------------------------------------------------------- SegmentManager
\* an activation that leaves the flags as they are
setActivated_skipped(flags, i) == flags

\* this.segmentActivated[i] = true (a JavaScript array grows on assignment)
setActivated(flags, i) ==
  IF i < Len(flags)
    THEN [flags EXCEPT ![i + 1] = TRUE]
    ELSE [k \in 1..(i + 1) |-> IF k <= Len(flags) THEN flags[k] ELSE k = i + 1]

\* the smallest timer handle not outstanding
freshHandle(s) == CHOOSE h \in 1..(Cardinality(s.timeouts) + 1) : h \notin s.timeouts

\* this.autoStartTimeout = setTimeout(..., 100)
setAutoStartTimeout(s) ==
  LET h == freshHandle(s)
  IN [s EXCEPT !.timeouts = @ \cup {h}, !.autoStartTimeout = h]

\* activateSegment that hands the full duration to the timer whatever has elapsed
activateSegment_fullDuration(s, segmentIndex, elapsedMinutes) ==
  IF segmentIndex >= Len(s.segments)
    THEN publish(s, "schedule:completed", <<>>)
    ELSE
      LET segment == s.segments[segmentIndex + 1]
          s1 == [s EXCEPT !.isActive = TRUE, !.scheduleStarted = TRUE,
                          !.segmentActivated = setActivated(@, segmentIndex)]
          configForTimer ==
            [ segmentDuration |-> segment.durationSec, countDown |-> segment.countDown,
              autoStart |-> <<>>, manualStart |-> segment.manualStart ]
          s2 == configure(publish(s1, "timer:configure", configForTimer), configForTimer)
          s3 == IF elapsedMinutes > 0 \/ (~segment.manualStart /\ Len(segment.autoStart) > 0)
                  THEN setAutoStartTimeout(s2)
                  ELSE s2
      IN publish(s3, "segment:active",
                 [ index |-> segmentIndex, segment |-> segment,
                   elapsedMinutes |-> elapsedMinutes,
                   totalSegments |-> Len(s.segments) ])

\* SegmentManager.activateSegment
activateSegment(s, segmentIndex, elapsedMinutes) ==
  IF segmentIndex >= Len(s.segments)
    THEN publish(s, "schedule:completed", <<>>)
    ELSE
      LET segment == s.segments[segmentIndex + 1]
          s1 == [s EXCEPT !.isActive = TRUE, !.scheduleStarted = TRUE,
                          !.segmentActivated = setActivated(@, segmentIndex)]
          \* countdown: the configured time is taken as the end of the segment
          startTime == IF segment.mode = "down"
                         THEN parseTime(segment.startTime) - segment.durationMinutes
                         ELSE parseTime(segment.startTime)
          startStr == startTimeStr(startTime + elapsedMinutes)
          configForTimer ==
            IF segment.manualStart
              THEN [ segmentDuration |-> segment.durationSec,
                     countDown |-> segment.countDown,
                     autoStart |-> <<>>, manualStart |-> TRUE ]
              ELSE [ segmentDuration |-> segment.durationSec - elapsedMinutes * 60,
                     countDown |-> segment.mode = "down",
                     autoStart |-> <<startStr>>, manualStart |-> FALSE ]
          s2 == configure(publish(s1, "timer:configure", configForTimer), configForTimer)
          s3 == IF elapsedMinutes > 0
                  THEN setAutoStartTimeout(s2)
                  ELSE IF ~segment.manualStart /\ Len(segment.autoStart) > 0
                         THEN setAutoStartTimeout(s2)
                         ELSE s2
      IN publish(s3, "segment:active",
                 [ index |-> segmentIndex, segment |-> segment,
                   elapsedMinutes |-> elapsedMinutes,
                   totalSegments |-> Len(s.segments) ])

RECURSIVE tick(_)
\* tick without its two re-activation guards (userPaused, segmentActivated)
tick_noReactivationGuards(s) ==
  IF Len(s.segments) = 0 THEN s
  ELSE IF ~(~s.isActive /\ s.currentSegmentIndex < Len(s.segments)) THEN s
  ELSE
    LET segment == s.segments[s.currentSegmentIndex + 1]
        currentTime == minutesOfDay(s.clock)
        segmentStartTime == parseTime(segment.startTime)
        segmentEndTime == segmentStartTime + segment.durationMinutes
    IN IF segment.manualStart THEN s
       ELSE IF currentTime >= segmentStartTime
         THEN IF currentTime < segmentEndTime
                THEN activateSegment(s, s.currentSegmentIndex,
                                     currentTime - segmentStartTime)
                ELSE tick([s EXCEPT !.currentSegmentIndex = @ + 1])
         ELSE s

\* tick that moves past an expired segment and leaves the next one to a later tick
tick_noImmediateRecheck(s) ==
  IF Len(s.segments) = 0 THEN s
  ELSE IF s.userPaused THEN s
  ELSE IF ~(~s.isActive /\ s.currentSegmentIndex < Len(s.segments)) THEN s
  ELSE
    LET segment == s.segments[s.currentSegmentIndex + 1]
        currentTime == minutesOfDay(s.clock)
        segmentStartTime == parseTime(segment.startTime)
        segmentEndTime == segmentStartTime + segment.durationMinutes
    IN IF segment.manualStart THEN s
       ELSE IF s.currentSegmentIndex < Len(s.segmentActivated)
               /\ s.segmentActivated[s.currentSegmentIndex + 1] THEN s
       ELSE IF currentTime >= segmentStartTime
         THEN IF currentTime < segmentEndTime
                THEN activateSegment(s, s.currentSegmentIndex,
                                     currentTime - segmentStartTime)
                ELSE [s EXCEPT !.currentSegmentIndex = @ + 1]
         ELSE s

\* tick that treats a Manual segment like a Scheduled one
tick_noManualReturn(s) ==
  IF Len(s.segments) = 0 THEN s
  ELSE IF s.userPaused THEN s
  ELSE IF ~(~s.isActive /\ s.currentSegmentIndex < Len(s.segments)) THEN s
  ELSE
    LET segment == s.segments[s.currentSegmentIndex + 1]
        currentTime == minutesOfDay(s.clock)
        segmentStartTime == parseTime(segment.startTime)
        segmentEndTime == segmentStartTime + segment.durationMinutes
    IN IF s.currentSegmentIndex < Len(s.segmentActivated)
          /\ s.segmentActivated[s.currentSegmentIndex + 1] THEN s
       ELSE IF currentTime >= segmentStartTime
         THEN IF currentTime < segmentEndTime
                THEN activateSegment(s, s.currentSegmentIndex,
                                     currentTime - segmentStartTime)
                ELSE tick([s EXCEPT !.currentSegmentIndex = @ + 1])
         ELSE s

\* SegmentManager.tick
tick(s) ==
  IF Len(s.segments) = 0 THEN s
  ELSE IF s.userPaused THEN s
  ELSE IF ~(~s.isActive /\ s.currentSegmentIndex < Len(s.segments)) THEN s
  ELSE
    LET segment == s.segments[s.currentSegmentIndex + 1]
        currentTime == minutesOfDay(s.clock)
        segmentStartTime == parseTime(segment.startTime)
        segmentEndTime == segmentStartTime + segment.durationMinutes
    IN IF segment.manualStart THEN s
       ELSE IF s.userPaused THEN s
       ELSE IF s.currentSegmentIndex < Len(s.segmentActivated)
               /\ s.segmentActivated[s.currentSegmentIndex + 1] THEN s
       ELSE IF currentTime >= segmentStartTime
         THEN IF currentTime < segmentEndTime
                THEN activateSegment(s, s.currentSegmentIndex,
                                     currentTime - segmentStartTime)
                ELSE tick([s EXCEPT !.currentSegmentIndex = @ + 1])
         ELSE s

\* SegmentManager.createManualTimer
createManualTimer(s) ==
  LET segment == [ startTime |-> clockTimeStr(s.clock), durationSec |-> 2400,
                   durationMinutes |-> 40, mode |-> "down", countDown |-> TRUE,
                   manualStart |-> TRUE, autoStart |-> <<>> ]
  IN activateSegment([s EXCEPT !.segments = <<segment>>, !.currentSegmentIndex = 0],
                     0, 0)

\* handleManualStart that leaves userPaused as it was
handleManualStart_keepsPaused(s, isManual) ==
  IF s.isActive THEN s
  ELSE IF s.currentSegmentIndex >= Len(s.segments) THEN createManualTimer(s)
  ELSE activateSegment(s, s.currentSegmentIndex, 0)

\* handleManualStart without its "already active" return
handleManualStart_noActiveGuard(s, isManual) ==
  LET s1 == [s EXCEPT !.userPaused = FALSE]
  IN IF s1.currentSegmentIndex >= Len(s1.segments) THEN createManualTimer(s1)
     ELSE activateSegment(s1, s1.currentSegmentIndex, 0)

\* handleManualStart that asks for the segment at the pointer even when the
\* pointer is past the end of the list
handleManualStart_noAdHoc(s, isManual) ==
  LET s1 == [s EXCEPT !.userPaused = FALSE]
  IN IF s1.isActive THEN s1
     ELSE activateSegment(s1, s1.currentSegmentIndex, 0)

\* SegmentManager.handleManualStart, the handler of timer:start
handleManualStart(s, isManual) ==
  LET s1 == [s EXCEPT !.userPaused = FALSE]
  IN IF s1.isActive THEN s1
     ELSE IF s1.currentSegmentIndex >= Len(s1.segments) THEN createManualTimer(s1)
     ELSE activateSegment(s1, s1.currentSegmentIndex, 0)

\* handleSegmentCompleted that leaves the pointer on the completed segment
handleSegmentCompleted_noAdvance(s) ==
  LET s1 == [s EXCEPT !.isActive = FALSE, !.userPaused = FALSE]
  IN IF s1.currentSegmentIndex < Len(s1.segments)
       THEN [s1 EXCEPT !.reticks = @ + 1]
       ELSE publish(s1, "schedule:completed", <<>>)

\* handleStop that moves the pointer past the stopped segment
handleStop_advances(s) ==
  LET s1 == [s EXCEPT !.isActive = FALSE, !.userPaused = TRUE,
                      !.currentSegmentIndex = @ + 1]
  IN IF s1.autoStartTimeout # 0
       THEN [s1 EXCEPT !.timeouts = @ \ {s1.autoStartTimeout}, !.autoStartTimeout = 0]
       ELSE s1

\* handleSegmentCompleted that declares the schedule complete after every segment
handleSegmentCompleted_alwaysDeclares(s) ==
  LET s1 == [s EXCEPT !.isActive = FALSE, !.userPaused = FALSE,
                      !.currentSegmentIndex = @ + 1]
  IN IF s1.currentSegmentIndex < Len(s1.segments)
       THEN publish([s1 EXCEPT !.reticks = @ + 1], "schedule:completed", <<>>)
       ELSE publish(s1, "schedule:completed", <<>>)

\* SegmentManager.handleSegmentCompleted, the handler of segment:completed
handleSegmentCompleted(s) ==
  LET s1 == [s EXCEPT !.isActive = FALSE, !.userPaused = FALSE,
                      !.currentSegmentIndex = @ + 1]
  IN IF s1.currentSegmentIndex < Len(s1.segments)
       THEN [s1 EXCEPT !.reticks = @ + 1]
       ELSE publish(s1, "schedule:completed", <<>>)

\* handleStop that also re-arms the stopped segment by clearing its flag
handleStop_clearsFlag(s) ==
  LET s1 == [s EXCEPT !.isActive = FALSE, !.userPaused = TRUE,
                      !.segmentActivated =
                         [k \in 1..Len(@) |-> @[k] /\ k # s.currentSegmentIndex + 1]]
  IN IF s1.autoStartTimeout # 0
       THEN [s1 EXCEPT !.timeouts = @ \ {s1.autoStartTimeout}, !.autoStartTimeout = 0]
       ELSE s1

\* SegmentManager.handleStop, the handler of timer:stop
handleStop(s) ==
  LET s1 == [s EXCEPT !.isActive = FALSE, !.userPaused = TRUE]
  IN IF s1.autoStartTimeout # 0
       THEN [s1 EXCEPT !.timeouts = @ \ {s1.autoStartTimeout}, !.autoStartTimeout = 0]
       ELSE s1

\* startScheduler that sets a new interval without clearing the one it has
startScheduler_noClear(s) == tick([s EXCEPT !.tickInterval = TRUE, !.intervals = @ + 1])

\* SegmentManager.reset
reset(s) ==
  LET s1 == IF s.tickInterval
              THEN [s EXCEPT !.intervals = @ - 1, !.tickInterval = FALSE]
              ELSE s
  IN [s1 EXCEPT !.segments = <<>>, !.currentSegmentIndex = 0,
                !.isActive = FALSE, !.scheduleStarted = FALSE]

\* SegmentManager.startScheduler
startScheduler(s) ==
  LET s1 == IF s.tickInterval THEN [s EXCEPT !.intervals = @ - 1] ELSE s
      s2 == [s1 EXCEPT !.tickInterval = TRUE, !.intervals = @ + 1]
  IN tick(s2)

\* the segment list of a loadConfig that builds no default segment
configuredSegments_noDefault(config) ==
  IF Len(config.segments) > 0
    THEN [ k \in 1..Len(config.segments) |->
             LET segment == config.segments[k]
             IN [ startTime |-> segment.time,
                  durationMinutes |-> segment.duration,
                  durationSec |-> segment.duration * 60,
                  mode |-> segment.mode,
                  countDown |-> segment.mode = "down",
                  manualStart |-> FALSE,
                  autoStart |-> <<segment.time>> ] ]
  ELSE IF config.segmentDuration # 0
    THEN LET startTime == IF Len(config.urlStartTime) > 0 THEN config.urlStartTime[1]
                          ELSE IF Len(config.autoStart) > 0 THEN config.autoStart[1]
                          ELSE HM(0, 0)
             hasAutoStart == Len(config.autoStart) > 0
         IN << [ startTime |-> startTime,
                 durationMinutes |-> roundMinutes(config.segmentDuration),
                 durationSec |-> config.segmentDuration,
                 mode |-> IF config.countDown THEN "down" ELSE "up",
                 countDown |-> config.countDown,
                 autoStart |-> config.autoStart,
                 manualStart |-> config.manualStart \/ ~hasAutoStart ] >>
  ELSE <<>>

\* the segment list loadConfig builds from a payload
configuredSegments(config) ==
  IF Len(config.segments) > 0
    THEN [ k \in 1..Len(config.segments) |->
             LET segment == config.segments[k]
             IN [ startTime |-> segment.time,
                  durationMinutes |-> segment.duration,
                  durationSec |-> segment.duration * 60,
                  mode |-> segment.mode,
                  countDown |-> segment.mode = "down",
                  manualStart |-> FALSE,
                  autoStart |-> <<segment.time>> ] ]
  ELSE IF config.segmentDuration # 0
    THEN LET startTime == IF Len(config.urlStartTime) > 0 THEN config.urlStartTime[1]
                          ELSE IF Len(config.autoStart) > 0 THEN config.autoStart[1]
                          ELSE HM(0, 0)
             hasAutoStart == Len(config.autoStart) > 0
         IN << [ startTime |-> startTime,
                 durationMinutes |-> roundMinutes(config.segmentDuration),
                 durationSec |-> config.segmentDuration,
                 mode |-> IF config.countDown THEN "down" ELSE "up",
                 countDown |-> config.countDown,
                 autoStart |-> config.autoStart,
                 manualStart |-> config.manualStart \/ ~hasAutoStart ] >>
  ELSE << [ startTime |-> HM(0, 0), durationMinutes |-> 40, durationSec |-> 2400,
            mode |-> "down", countDown |-> TRUE, manualStart |-> TRUE,
            autoStart |-> <<>> ] >>

\* loadConfig's reset that leaves userPaused as it was
resetState_keepsPaused(s, config) ==
  LET segs == configuredSegments(config)
  IN [s EXCEPT !.segments = segs,
               !.currentSegmentIndex = 0,
               !.isActive = FALSE,
               !.scheduleStarted = FALSE,
               !.segmentActivated = [k \in 1..Len(segs) |-> FALSE]]

\* SegmentManager.loadConfig up to "Reset state": the new list and the reset
resetState(s, config) ==
  LET segs == configuredSegments(config)
  IN [s EXCEPT !.segments = segs,
               !.currentSegmentIndex = 0,
               !.isActive = FALSE,
               !.scheduleStarted = FALSE,
               !.userPaused = FALSE,
               !.segmentActivated = [k \in 1..Len(segs) |-> FALSE]]

\* SegmentManager.loadConfig, the handler of config:ready
loadConfig(s, config) ==
  LET s2 == startScheduler(resetState(s, config))
  IN publish(s2, "segments:configured",
             [segments |-> s2.segments, totalSegments |-> Len(s2.segments)])

\* --------------------------------------------------------------- the bus
\* eventBus.emit('timer:start', isManual): TimerCore, then SegmentManager
emitTimerStart(s, isManual) ==
  handleManualStart(startSegmentNow(publish(s, "timer:start", isManual), isManual),
                    isManual)

\* eventBus.emit('timer:stop'): TimerCore, then SegmentManager
emitTimerStop(s) == handleStop(stopSegment(publish(s, "timer:stop", <<>>)))

\* TimerCore.drawTimerArc at a frame where the run has reached its duration
completeSegment(s) ==
  LET info == [ duration |-> roundMinutes(s.segmentDurationSec),
                mode |-> IF s.countDown THEN "down" ELSE "up",
                wasManual |-> s.manualRun ]
  IN stopSegment(handleSegmentCompleted(publish(s, "segment:completed", info)))

\* ------------------------------------------------------------ EventBus
\* the event names used on the bus in the model
BusEvents == {"timer:start", "timer:stop"}

\* the callbacks handed to the bus: 1 returns, 2 throws, 3 publishes the event
\* it is called for once more, the first time it is called
Callbacks == 1..3

throws(cb) == cb = 2

publishesAgain(cb) == cb = 3

\* an element of this.events[event]: the callback itself (wrapper = 0), or the
\* onceCallback number `wrapper` that EventBus.once made around it
Listener(cb, wrapper) == [cb |-> cb, wrapper |-> wrapper]

\* new EventBus(): no listener.  With the bus are kept: for each onceCallback
\* made, whether a publish that has returned called it (onceCalled); whether
\* callback 3 has published (again); the calls of the last publish (calls), the
\* errors it logged, the depth of nesting and the exception in flight
EventBus ==
  [ events |-> [e \in BusEvents |-> <<>>],
    onceCalled |-> <<>>, again |-> FALSE,
    calls |-> <<>>, errors |-> 0, depth |-> 0, thrown |-> FALSE,
    op |-> "new", event |-> "" ]

\* EventBus.on
on(b, event, listener) == [b EXCEPT !.events[event] = Append(@, listener)]

\* EventBus.off
off(b, event, listener) ==
  [b EXCEPT !.events[event] = SelectSeq(@, LAMBDA l : l # listener)]

RECURSIVE emit(_, _)
RECURSIVE forEach(_, _, _, _)

\* callback(data) for the callbacks of the model; an exception it raises is in
\* flight in `thrown`
callback(b, event, cb) ==
  IF throws(cb) THEN [b EXCEPT !.thrown = TRUE]
  ELSE IF publishesAgain(cb) /\ ~b.again THEN emit([b EXCEPT !.again = TRUE], event)
  ELSE b

\* onceCallback of EventBus.once: the callback, then off
onceCallback(b, event, listener) ==
  LET r == callback(b, event, listener.cb)
  IN IF r.thrown THEN r ELSE off(r, event, listener)

\* one listener is called; the call is recorded with its depth of nesting
invoke(b, event, listener) ==
  LET b1 == [b EXCEPT !.calls = Append(@, [event |-> event, listener |-> listener,
                                           depth |-> b.depth])]
  IN IF listener.wrapper = 0
       THEN callback(b1, event, listener.cb)
       ELSE onceCallback(b1, event, listener)

\* forEach without the try / catch around the call
forEach_noCatch(b, event, listeners, i) ==
  IF i > Len(listeners) THEN b
  ELSE LET r == invoke(b, event, listeners[i])
       IN IF r.thrown THEN r ELSE forEach(r, event, listeners, i + 1)

\* this.events[event].forEach(callback => { try { callback(data) } catch ... })
\* from element i of the array on
forEach(b, event, listeners, i) ==
  IF i > Len(listeners) THEN b
  ELSE LET r == invoke(b, event, listeners[i])
           c == IF r.thrown THEN [r EXCEPT !.thrown = FALSE, !.errors = @ + 1] ELSE r
       IN forEach(c, event, listeners, i + 1)

\* the array read from its last element to its first
reversed(listeners) == [i \in 1..Len(listeners) |-> listeners[Len(listeners) + 1 - i]]

\* emit that calls the listeners last subscribed first
emit_lastFirst(b, event) ==
  LET r == forEach([b EXCEPT !.depth = @ + 1], event, reversed(b.events[event]), 1)
  IN [r EXCEPT !.depth = @ - 1]

\* EventBus.emit
emit(b, event) ==
  LET r == forEach([b EXCEPT !.depth = @ + 1], event, b.events[event], 1)
  IN [r EXCEPT !.depth = @ - 1]

\* EventBus.once: a new onceCallback is subscribed
once(b, event, cb) ==
  LET w == Len(b.onceCalled) + 1
  IN on([b EXCEPT !.onceCalled = Append(@, FALSE)], event, Listener(cb, w))

\* the number of listeners on the bus
listenerCount(b) == Len(b.events["timer:start"]) + Len(b.events["timer:stop"])

\* ------------------------------------------------------------- the steps
\* the step's result becomes the next state
Becomes(r, op) ==
  /\ Cardinality(r.timeouts) <= MaxTimeouts
  /\ r.reticks <= MaxReticks
  /\ segments' = r.segments
  /\ currentSegmentIndex' = r.currentSegmentIndex
  /\ isActive' = r.isActive
  /\ scheduleStarted' = r.scheduleStarted
  /\ userPaused' = r.userPaused
  /\ segmentActivated' = r.segmentActivated
  /\ tickInterval' = r.tickInterval
  /\ autoStartTimeout' = r.autoStartTimeout
  /\ timerRunning' = r.timerRunning
  /\ running' = r.running
  /\ manualRun' = r.manualRun
  /\ segmentStartMs' = r.segmentStartMs
  /\ segmentDurationSec' = r.segmentDurationSec
  /\ countDown' = r.countDown
  /\ autoStartTime' = r.autoStartTime
  /\ autostartDone' = r.autostartDone
  /\ timeouts' = r.timeouts
  /\ reticks' = r.reticks
  /\ intervals' = r.intervals
  /\ clock' = r.clock
  /\ emitted' = r.emitted
  /\ loadedConfig' = r.loadedConfig
  /\ lastOp' = op
  /\ resumed' = (op = "userStart" /\ lastOp = "userStop")
  /\ before' = [isActive |-> isActive, userPaused |-> userPaused, running |-> running]
  /\ bus' = bus

\* the constructors of SegmentManager and TimerCore
Init ==
  /\ segments = <<>>
  /\ currentSegmentIndex = 0
  /\ isActive = FALSE
  /\ scheduleStarted = FALSE
  /\ userPaused = FALSE
  /\ segmentActivated = <<>>
  /\ tickInterval = FALSE
  /\ autoStartTimeout = 0
  /\ timerRunning = FALSE
  /\ running = FALSE
  /\ manualRun = FALSE
  /\ segmentStartMs = <<>>
  /\ segmentDurationSec = 2400
  /\ countDown = TRUE
  /\ autoStartTime = <<>>
  /\ autostartDone = FALSE
  /\ timeouts = {}
  /\ reticks = 0
  /\ intervals = 0
  /\ clock \in {At(9, 45), At(14, 30)}
  /\ lastOp = "init"
  /\ emitted = <<>>
  /\ loadedConfig = EmptyConfig
  /\ resumed = FALSE
  /\ before = [isActive |-> FALSE, userPaused |-> FALSE, running |-> FALSE]
  /\ bus = EventBus

\* config:ready is published with a payload
ConfigReady ==
  \E config \in Configs(clock) :
    Becomes([loadConfig(State, config) EXCEPT !.loadedConfig = config], "load")

\* the 1 Hz interval fires
IntervalTick == tickInterval /\ Becomes(tick(State), "tick")

\* a post-completion re-evaluation timeout fires
RetickTimeout ==
  /\ reticks > 0
  /\ Becomes(tick([State EXCEPT !.reticks = @ - 1]), "retick")

\* a deferred start fires: its callback clears the handle and publishes timer:start
AutoStartTimeout ==
  \E h \in timeouts :
    Becomes(emitTimerStart([State EXCEPT !.timeouts = @ \ {h}, !.autoStartTimeout = 0],
                           FALSE),
            "autoStart")

\* the user's button or gesture publishes timer:start
UserStart == Becomes(emitTimerStart(State, TRUE), "userStart")

\* the user's button or gesture publishes timer:stop
UserStop == Becomes(emitTimerStop(State), "userStop")

\* a frame is drawn while the run has reached its nominal duration
DrawTimerArc ==
  /\ running /\ Len(segmentStartMs) > 0
  /\ clamped(State) >= segmentDurationSec
  /\ Becomes(completeSegment(State), "completed")

\* the wall clock reaches the next observed instant
AdvanceClock ==
  LET later == {t \in sessionOf(clock) : t > clock}
  IN /\ later # {}
     /\ LET next == CHOOSE t \in later : \A u \in later : t <= u
        IN Becomes([State EXCEPT !.clock = next], "clock")

Next ==
  \/ ConfigReady
  \/ IntervalTick
  \/ RetickTimeout
  \/ AutoStartTimeout
  \/ UserStart
  \/ UserStop
  \/ DrawTimerArc
  \/ AdvanceClock

Spec == Init /\ [][Next]_vars

\* the bus delivers the segment:completed of the run that has just completed to
\* SegmentManager's handler a second time
DuplicateCompletion ==
  /\ lastOp = "completed"
  /\ Becomes(handleSegmentCompleted(
               publish(State, "segment:completed", payloadOf("segment:completed"))),
             "completedAgain")

NextDup == Next \/ DuplicateCompletion

\* the core with duplicate deliveries of the completion signal
SpecDup == Init /\ [][NextDup]_vars

\* TimerCore.drawTimerArc of the second variant of coreTimer.js (lines 439-973)
\* at a frame where the run has reached its duration: a manual run is stopped,
\* any other run is started again, and no completion is published
completeSegmentV2(s) ==
  IF s.manualRun THEN stopSegment(s) ELSE startSegmentNow(s, FALSE)

\* a frame of the second variant is drawn while the run has reached its duration
DrawTimerArcV2 ==
  /\ running /\ Len(segmentStartMs) > 0
  /\ clamped(State) >= segmentDurationSec
  /\ Becomes(completeSegmentV2(State), "completed")

\* TimerCore.checkAutoStart of the second variant. this.urlStartTime and
\* this.urlDuration are assigned nowhere, so its mid-session branch is never
\* taken; what is left is the exact match of the wall clock's hour and minute
checkAutoStart(s, settings) ==
  IF Len(settings.autoStart) = 0 \/ s.running \/ s.autostartDone THEN s
  ELSE IF clockTimeStr(s.clock) = settings.autoStart[1]
    THEN startSegmentNow([s EXCEPT !.autostartDone = TRUE], FALSE)
    ELSE s

\* the settings checkAutoStart is called with
AutoStartSettings ==
  { [autoStart |-> <<>>], [autoStart |-> <<HM(10, 0)>>], [autoStart |-> <<HM(15, 0)>>] }

\* the application calls checkAutoStart of the second variant
CheckAutoStart ==
  \E settings \in AutoStartSettings :
    Becomes(checkAutoStart(State, settings), "checkAutoStart")

\* the second variant never publishes segment:completed, so no post-completion
\* re-evaluation is ever scheduled
NextV2 ==
  \/ ConfigReady
  \/ IntervalTick
  \/ AutoStartTimeout
  \/ UserStart
  \/ UserStop
  \/ DrawTimerArcV2
  \/ CheckAutoStart
  \/ AdvanceClock

\* the core with the TimerCore of the second variant
SpecV2 == Init /\ [][NextV2]_vars

\* ---- the second variant of segmentManager.js (lines 445-886)
\* SegmentManager.activateSegment of the second variant: a start with no elapsed
\* minutes is configured like a Manual one
activateSegmentV2(s, segmentIndex, elapsedMinutes) ==
  IF segmentIndex >= Len(s.segments)
    THEN publish(s, "schedule:completed", <<>>)
    ELSE
      LET segment == s.segments[segmentIndex + 1]
          s1 == [s EXCEPT !.isActive = TRUE, !.scheduleStarted = TRUE,
                          !.segmentActivated = setActivated(@, segmentIndex)]
          isManualOrPresetStart == segment.manualStart \/ elapsedMinutes = 0
          startTime == IF segment.mode = "down"
                         THEN parseTime(segment.startTime) - segment.durationMinutes
                         ELSE parseTime(segment.startTime)
          startStr == startTimeStr(startTime + elapsedMinutes)
          configForTimer ==
            IF isManualOrPresetStart
              THEN [ segmentDuration |-> segment.durationSec,
                     countDown |-> segment.countDown,
                     autoStart |-> <<>>, manualStart |-> TRUE ]
              ELSE [ segmentDuration |-> segment.durationSec - elapsedMinutes * 60,
                     countDown |-> segment.mode = "down",
                     autoStart |-> <<startStr>>, manualStart |-> FALSE ]
          s2 == configure(publish(s1, "timer:configure", configForTimer), configForTimer)
          s3 == IF elapsedMinutes > 0
                  THEN setAutoStartTimeout(s2)
                  ELSE IF ~segment.manualStart /\ Len(segment.autoStart) > 0
                         THEN setAutoStartTimeout(s2)
                         ELSE s2
      IN publish(s3, "segment:active",
                 [ index |-> segmentIndex, segment |-> segment,
                   elapsedMinutes |-> elapsedMinutes,
                   totalSegments |-> Len(s.segments) ])

RECURSIVE tickV2(_)
\* SegmentManager.tick of the second variant
tickV2(s) ==
  IF Len(s.segments) = 0 THEN s
  ELSE IF s.userPaused THEN s
  ELSE IF ~(~s.isActive /\ s.currentSegmentIndex < Len(s.segments)) THEN s
  ELSE
    LET segment == s.segments[s.currentSegmentIndex + 1]
        currentTime == minutesOfDay(s.clock)
        segmentStartTime == parseTime(segment.startTime)
        segmentEndTime == segmentStartTime + segment.durationMinutes
    IN IF segment.manualStart THEN s
       ELSE IF s.userPaused THEN s
       ELSE IF s.currentSegmentIndex < Len(s.segmentActivated)
               /\ s.segmentActivated[s.currentSegmentIndex + 1] THEN s
       ELSE IF currentTime >= segmentStartTime
         THEN IF currentTime < segmentEndTime
                THEN activateSegmentV2(s, s.currentSegmentIndex,
                                       currentTime - segmentStartTime)
                ELSE tickV2([s EXCEPT !.currentSegmentIndex = @ + 1])
         ELSE s

\* SegmentManager.createManualTimer of the second variant
createManualTimerV2(s) ==
  LET segment == [ startTime |-> clockTimeStr(s.clock), durationSec |-> 2400,
                   durationMinutes |-> 40, mode |-> "down", countDown |-> TRUE,
                   manualStart |-> TRUE, autoStart |-> <<>> ]
  IN activateSegmentV2([s EXCEPT !.segments = <<segment>>, !.currentSegmentIndex = 0],
                       0, 0)

\* SegmentManager.handleManualStart of the second variant
handleManualStartV2(s, isManual) ==
  LET s1 == [s EXCEPT !.userPaused = FALSE]
  IN IF s1.isActive THEN s1
     ELSE IF s1.currentSegmentIndex >= Len(s1.segments) THEN createManualTimerV2(s1)
     ELSE activateSegmentV2(s1, s1.currentSegmentIndex, 0)

\* SegmentManager.startScheduler of the second variant
startSchedulerV2(s) ==
  LET s1 == IF s.tickInterval THEN [s EXCEPT !.intervals = @ - 1] ELSE s
      s2 == [s1 EXCEPT !.tickInterval = TRUE, !.intervals = @ + 1]
  IN tickV2(s2)

\* Math.abs
abs(x) == IF x < 0 THEN -x ELSE x

\* the segment list the second variant's loadConfig builds from a payload, at
\* the wall-clock instant clk: an entry of a multi-segment payload whose time is
\* within 2 minutes of now is taken for a preset
configuredSegmentsV2(config, clk) ==
  IF Len(config.segments) > 0
    THEN [ k \in 1..Len(config.segments) |->
             LET segment == config.segments[k]
                 segmentTime == parseTime(segment.time)
                 currentTimeMinutes == minutesOfDay(clk)
                 timeDiff == abs(segmentTime - currentTimeMinutes)
                 isImmediatePreset == timeDiff <= 2
             IN [ startTime |-> segment.time,
                  durationMinutes |-> segment.duration,
                  durationSec |-> segment.duration * 60,
                  mode |-> segment.mode,
                  countDown |-> segment.mode = "down",
                  manualStart |-> isImmediatePreset,
                  autoStart |-> IF ~isImmediatePreset THEN <<segment.time>> ELSE <<>> ] ]
    ELSE configuredSegments(config)

\* the second variant's loadConfig up to "Reset state"
resetStateV2(s, config) ==
  LET segs == configuredSegmentsV2(config, s.clock)
  IN [s EXCEPT !.segments = segs,
               !.currentSegmentIndex = 0,
               !.isActive = FALSE,
               !.scheduleStarted = FALSE,
               !.userPaused = FALSE,
               !.segmentActivated = [k \in 1..Len(segs) |-> FALSE]]

\* SegmentManager.loadConfig of the second variant
loadConfigV2(s, config) ==
  LET s2 == startSchedulerV2(resetStateV2(s, config))
  IN publish(s2, "segments:configured",
             [segments |-> s2.segments, totalSegments |-> Len(s2.segments)])

\* eventBus.emit('timer:start', isManual): TimerCore, then the second variant's
\* SegmentManager
emitTimerStartV2(s, isManual) ==
  handleManualStartV2(startSegmentNow(publish(s, "timer:start", isManual), isManual),
                      isManual)

ConfigReadyV2 ==
  \E config \in Configs(clock) :
    Becomes([loadConfigV2(State, config) EXCEPT !.loadedConfig = config], "load")

IntervalTickV2 == tickInterval /\ Becomes(tickV2(State), "tick")

RetickTimeoutV2 ==
  /\ reticks > 0
  /\ Becomes(tickV2([State EXCEPT !.reticks = @ - 1]), "retick")

AutoStartTimeoutV2 ==
  \E h \in timeouts :
    Becomes(emitTimerStartV2([State EXCEPT !.timeouts = @ \ {h}, !.autoStartTimeout = 0],
                             FALSE),
            "autoStart")

UserStartV2 == Becomes(emitTimerStartV2(State, TRUE), "userStart")

NextManagerV2 ==
  \/ ConfigReadyV2
  \/ IntervalTickV2
  \/ RetickTimeoutV2
  \/ AutoStartTimeoutV2
  \/ UserStartV2
  \/ UserStop
  \/ DrawTimerArc
  \/ AdvanceClock

\* the core with the SegmentManager of the second variant
SpecManagerV2 == Init /\ [][NextManagerV2]_vars

\* the application calls reset() (or destroy()) on the SegmentManager
Reset == Becomes(reset(State), "reset")

NextReset == NextDup \/ Reset

\* the core with resets and duplicate deliveries of the completion signal
SpecReset == Init /\ [][NextReset]_vars

\* the system clock is set back (by the user, or by a time synchronisation) to
\* an earlier instant
ClockSetBack ==
  \E earlier \in {t \in sessionOf(clock) : t < clock} :
    Becomes([State EXCEPT !.clock = earlier], "clockBack")

\* the payloads of the afternoon session have one segment each, so a completion
\* always ends the schedule and no re-evaluation timeout is ever pending
NextClock ==
  \/ ConfigReady
  \/ IntervalTick
  \/ AutoStartTimeout
  \/ UserStart
  \/ UserStop
  \/ DrawTimerArc
  \/ AdvanceClock
  \/ ClockSetBack

\* the afternoon session
InitClock == Init /\ clock = At(14, 30)

\* the core, in the afternoon session, on a wall clock that can also be set back
SpecClock == InitClock /\ [][NextClock]_vars

\* a single-timer payload as loadConfig reads it, from a producer that gives
\* the duration in seconds
TimerConfig(start, sec, down) ==
  [ segments |-> <<>>, segmentDuration |-> sec, countDown |-> down,
    autoStart |-> <<start>>, manualStart |-> FALSE, urlStartTime |-> <<start>>,
    originalTime |-> <<start>> ]

\* durations in seconds: whole minutes, and not
JoinDurations == {1800, 1830, 3630}

JoinConfigs ==
  { TimerConfig(start, sec, down) :
      start \in {HM(14, 30), HM(15, 0)}, sec \in JoinDurations, down \in BOOLEAN }

\* config:ready is published with a single-timer payload
ConfigReadyJoin ==
  \E config \in JoinConfigs :
    Becomes([loadConfig(State, config) EXCEPT !.loadedConfig = config], "load")

\* a single-timer payload builds one segment, so a completion always ends the
\* schedule and no re-evaluation timeout is ever pending
NextJoin ==
  \/ ConfigReadyJoin
  \/ IntervalTick
  \/ AutoStartTimeout
  \/ UserStart
  \/ UserStop
  \/ DrawTimerArc
  \/ AdvanceClock

\* the core with single-timer payloads whose duration is given in seconds
SpecJoin == InitClock /\ [][NextJoin]_vars

\* the variables of SegmentManager, TimerCore and the event loop
coreVars ==
  << segments, currentSegmentIndex, isActive, scheduleStarted, userPaused,
     segmentActivated, tickInterval, autoStartTimeout, timerRunning,
     running, manualRun, segmentStartMs, segmentDurationSec, countDown, autoStartTime,
     autostartDone,
     timeouts, reticks, intervals, clock, lastOp, emitted, loadedConfig, resumed,
     before >>

\* the onceCallbacks called in the calls of a publish
wrappersIn(calls) == {calls[i].listener.wrapper : i \in 1..Len(calls)} \ {0}

\* the bus after one of its methods has returned to the caller
BusBecomes(r, op, event) ==
  /\ listenerCount(r) <= MaxListeners
  /\ Len(r.onceCalled) <= MaxOnce
  /\ bus' = [r EXCEPT !.op = op, !.event = event,
                      !.onceCalled = [w \in 1..Len(@) |-> @[w] \/ w \in wrappersIn(r.calls)]]
  /\ UNCHANGED coreVars

\* a module subscribes a callback
Subscribe ==
  \E event \in BusEvents, cb \in Callbacks :
    BusBecomes(on([bus EXCEPT !.calls = <<>>, !.errors = 0], event, Listener(cb, 0)),
               "on", "")

\* a module subscribes a callback for one delivery
SubscribeOnce ==
  \E event \in BusEvents, cb \in Callbacks :
    BusBecomes(once([bus EXCEPT !.calls = <<>>, !.errors = 0], event, cb), "once", "")

\* a module unsubscribes a callback
Unsubscribe ==
  \E event \in BusEvents, cb \in Callbacks :
    BusBecomes(off([bus EXCEPT !.calls = <<>>, !.errors = 0], event, Listener(cb, 0)),
               "off", "")

\* a module publishes an event
Publish ==
  \E event \in BusEvents :
    BusBecomes(emit([bus EXCEPT !.calls = <<>>, !.errors = 0], event), "emit", event)

NextBus ==
  \/ Subscribe
  \/ SubscribeOnce
  \/ Unsubscribe
  \/ Publish

\* the message bus on its own, used by modules that subscribe and publish
InitBus == Init /\ clock = At(9, 45)

SpecBus == InitBus /\ [][NextBus]_vars

\* ------------------------------------------------------------- the claims
\* C1: once the user has stopped (userPaused stays set until a user start, a
\* load or a completion), no step other than a user start makes the run
\* running, and no deferred start of the scheduler fires
C1_StopCancelsDeferredStart ==
  [][(userPaused /\ lastOp' # "userStart") =>
       (~running' /\ lastOp' # "autoStart")]_vars

\* C2: no activation is performed while isActive is already true (a load
\* resets isActive first), a step activates at most one segment, and the
\* active segment is segments[currentSegmentIndex]
C2_OneActiveSegment ==
  [][ /\ (isActive /\ lastOp' # "load") => ~published("segment:active")'
      /\ Cardinality(positionsOf("segment:active")') <= 1
      /\ published("segment:active")' =>
           /\ isActive'
           /\ payloadOf("segment:active")'.index = currentSegmentIndex'
           /\ payloadOf("segment:active")'.segment = segments'[currentSegmentIndex' + 1]
      /\ isActive' =>
           /\ currentSegmentIndex' < Len(segments')
           /\ flagAt(segmentActivated', currentSegmentIndex') ]_vars

\* a start request arrived while a segment was active and activated nothing
C2_Witness ==
  /\ lastOp = "userStart"
  /\ isActive
  /\ ~published("segment:active")
  /\ Len(segments) = 2

\* C3: within one configuration load an activated flag that is true stays true:
\* only a load replaces the flags
C3_ActivatedMonotonic ==
  [][lastOp' # "load" =>
       \A i \in 0..(Len(segmentActivated) - 1) :
         flagAt(segmentActivated, i) => flagAt(segmentActivated', i)]_vars

\* a user stop and a completion have both left the flag of segment 0 set
C3_Witness ==
  /\ lastOp = "completed"
  /\ currentSegmentIndex = 1
  /\ Len(segments) = 2
  /\ flagAt(segmentActivated, 0)
  /\ ~flagAt(segmentActivated, 1)

\* C4: a tick (the interval's or the post-completion re-evaluation) never
\* activates a segment whose activated flag was already true
C4_TickActivatesOnce ==
  [][(lastOp' \in TickOps /\ published("segment:active")') =>
       ~flagAt(segmentActivated, payloadOf("segment:active")'.index)]_vars

\* a tick inside the window of a Scheduled segment that was activated before
\* and stopped by the user: the pointer is still on it and it is left alone
C4_Witness ==
  /\ lastOp = "tick"
  /\ ~isActive
  /\ currentSegmentIndex < Len(segments)
  /\ flagAt(segmentActivated, currentSegmentIndex)
  /\ ~segments[currentSegmentIndex + 1].manualStart
  /\ minutesOfDay(clock) >= parseTime(segments[currentSegmentIndex + 1].startTime)
  /\ minutesOfDay(clock) < parseTime(segments[currentSegmentIndex + 1].startTime)
                             + segments[currentSegmentIndex + 1].durationMinutes
  /\ ~published("segment:active")

\* C5: a load whose first segment is Scheduled, at a wall clock e minutes
\* (0 < e < durationMinutes) after the segment's configured time, activates it
\* in the load-time tick with elapsedMinutes = e and hands the timer the
\* nominal duration durationSec - 60 * e
C5_MidSessionJoin ==
  LET segment == segments[1]
      e == minutesOfDay(clock) - parseTime(segment.startTime)
  IN (lastOp = "load" /\ ~segment.manualStart /\ 0 < e /\ e < segment.durationMinutes)
       => /\ isActive
          /\ currentSegmentIndex = 0
          /\ flagAt(segmentActivated, 0)
          /\ published("segment:active")
          /\ payloadOf("segment:active").index = 0
          /\ payloadOf("segment:active").elapsedMinutes = e
          /\ published("timer:configure")
          /\ payloadOf("timer:configure").segmentDuration = segment.durationSec - 60 * e
          /\ segmentDurationSec = segment.durationSec - 60 * e

\* {time: "10:00", duration: 20} count down, loaded at 10:05: active, 5 minutes
\* elapsed, 900 seconds to run
C5_Witness ==
  /\ lastOp = "load"
  /\ clock = At(10, 5)
  /\ loadedConfig = MultiConfig(<<Seg(HM(10, 0), 20, "down")>>)
  /\ isActive
  /\ payloadOf("segment:active").elapsedMinutes = 5
  /\ segmentDurationSec = 900

\* the time the payload of the last load gave segment i (for a single-timer
\* payload of the URL loader, the time of the URL)
scheduledTime(i) ==
  IF Len(loadedConfig.segments) > 0 THEN loadedConfig.segments[i + 1].time
  ELSE IF Len(loadedConfig.originalTime) > 0 THEN loadedConfig.originalTime[1]
  ELSE segments[i + 1].startTime

\* C6: on a Scheduled, not yet activated current segment the tick works on the
\* window that starts at the time derived from the direction (count down:
\* configured time minus duration; count up: configured time): it waits before
\* the window, activates inside it with the minutes elapsed since its start,
\* and skips the segment after it
C6_TickWindowByDirection ==
  [][(/\ lastOp' \in TickOps
      /\ ~isActive /\ ~userPaused
      /\ currentSegmentIndex < Len(segments)
      /\ ~segments[currentSegmentIndex + 1].manualStart
      /\ ~flagAt(segmentActivated, currentSegmentIndex))
     => LET segment == segments[currentSegmentIndex + 1]
            now == minutesOfDay(clock)
            T == parseTime(scheduledTime(currentSegmentIndex))
            segmentStart == IF segment.mode = "down" THEN T - segment.durationMinutes
                                                     ELSE T
        IN /\ now < segmentStart =>
                /\ ~isActive'
                /\ currentSegmentIndex' = currentSegmentIndex
                /\ ~published("segment:active")'
           /\ (segmentStart <= now /\ now < segmentStart + segment.durationMinutes) =>
                /\ isActive'
                /\ currentSegmentIndex' = currentSegmentIndex
                /\ published("segment:active")'
                /\ payloadOf("segment:active")'.elapsedMinutes = now - segmentStart
           /\ now >= segmentStart + segment.durationMinutes =>
                /\ currentSegmentIndex' > currentSegmentIndex
                /\ ~flagAt(segmentActivated', currentSegmentIndex)]_vars

\* C7: an on-time activation (no minutes elapsed) of a Scheduled segment with
\* scheduled time T and duration D hands the timer the start T - D when it
\* counts down and T when it counts up, for multi-segment and single-timer
\* payloads alike
C7_StartByDirection ==
  (/\ published("segment:active")
   /\ payloadOf("segment:active").elapsedMinutes = 0
   /\ ~payloadOf("segment:active").segment.manualStart)
  => LET i == payloadOf("segment:active").index
         segment == payloadOf("segment:active").segment
         T == parseTime(scheduledTime(i))
     IN payloadOf("timer:configure").autoStart =
          << startTimeStr(IF segment.mode = "down" THEN T - segment.durationMinutes
                                                    ELSE T) >>

\* C8: a user stop leaves currentSegmentIndex where it is, and a user start
\* that directly follows it activates that same segment with no minutes
\* elapsed and its full duration
C8_StopThenStartSameSegment ==
  [][ /\ lastOp' = "userStop" =>
           /\ currentSegmentIndex' = currentSegmentIndex
           /\ segments' = segments
      /\ (lastOp = "userStop" /\ lastOp' = "userStart"
          /\ currentSegmentIndex < Len(segments)) =>
           /\ currentSegmentIndex' = currentSegmentIndex
           /\ segments' = segments
           /\ isActive'
           /\ published("segment:active")'
           /\ payloadOf("segment:active")'.index = currentSegmentIndex
           /\ payloadOf("segment:active")'.elapsedMinutes = 0
           /\ payloadOf("timer:configure")'.segmentDuration =
                segments[currentSegmentIndex + 1].durationSec
           /\ segmentDurationSec' = segments[currentSegmentIndex + 1].durationSec ]_vars

\* a Scheduled segment joined 5 minutes late, stopped, and started again by the
\* user 20 minutes after its configured time: same segment, full 1200 seconds
C8_Witness ==
  /\ resumed
  /\ clock = At(10, 20)
  /\ loadedConfig = MultiConfig(<<Seg(HM(10, 0), 20, "down"), Seg(HM(10, 20), 20, "up")>>)
  /\ currentSegmentIndex = 0
  /\ isActive
  /\ payloadOf("segment:active").index = 0
  /\ segmentDurationSec = 1200

\* C9: the completion of the run sets isActive and userPaused to false and
\* moves currentSegmentIndex forward by exactly one
C9_CompletionAdvances ==
  [][lastOp' = "completed" =>
       /\ ~isActive'
       /\ ~userPaused'
       /\ currentSegmentIndex' = currentSegmentIndex + 1]_vars

\* the first of two segments has completed
C9_Witness ==
  /\ lastOp = "completed"
  /\ Len(segments) = 2
  /\ currentSegmentIndex = 1
  /\ ~isActive
  /\ ~userPaused
  /\ ~running

\* C10: a second delivery of the completion signal of the same run changes
\* nothing in the scheduler: currentSegmentIndex, isActive, userPaused, no
\* schedule:completed, no further re-evaluation
C10_CompletionIdempotent ==
  [][lastOp' = "completedAgain" =>
       /\ currentSegmentIndex' = currentSegmentIndex
       /\ isActive' = isActive
       /\ userPaused' = userPaused
       /\ reticks' = reticks
       /\ ~published("schedule:completed")']_vars

\* C11: a load in any state replaces the schedule state.  Right after the
\* reset of loadConfig the list is the one built from the payload,
\* currentSegmentIndex = 0, isActive and userPaused are false and every flag
\* of the new list is false; after the load-time tick that follows in the same
\* handler, userPaused is still false and the only flag that can be set is
\* that of a segment this load has just activated
C11_LoadReplacesState ==
  [][lastOp' = "load" =>
       LET r == resetState(State, loadedConfig')
       IN /\ r.segments = configuredSegments(loadedConfig')
          /\ r.currentSegmentIndex = 0
          /\ ~r.isActive
          /\ ~r.userPaused
          /\ Len(r.segmentActivated) = Len(r.segments)
          /\ \A i \in 0..(Len(r.segments) - 1) : ~flagAt(r.segmentActivated, i)
          /\ segments' = r.segments
          /\ ~userPaused'
          /\ Len(segmentActivated') = Len(segments')
          /\ isActive' <=> published("segment:active")'
          /\ \A i \in 0..(Len(segments') - 1) :
               flagAt(segmentActivated', i) <=> (isActive' /\ i = currentSegmentIndex')]_vars

\* a load while the user had paused a segment of the previous list whose flag
\* was set: the pause is gone and the load-time tick has activated the new
\* first segment
C11_Witness ==
  /\ lastOp = "load"
  /\ before.userPaused
  /\ ~userPaused
  /\ isActive
  /\ currentSegmentIndex = 0
  /\ segmentActivated = <<TRUE>>

\* the end of the window the tick gives a segment: segmentEndTime
segmentEndTime(segment) == parseTime(segment.startTime) + segment.durationMinutes

\* the index the tick's chain of "already finished, move to next" stops at when
\* it starts on segment i of segs
RECURSIVE firstNotFinished(_, _, _)
firstNotFinished(segs, i, now) ==
  IF i < Len(segs) /\ ~segs[i + 1].manualStart /\ now >= segmentEndTime(segs[i + 1])
    THEN firstNotFinished(segs, i + 1, now)
    ELSE i

\* what a tick that starts on the finished Scheduled segment i of segs leaves
\* behind
SkipsFinished(segs, i) ==
  LET now == minutesOfDay(clock)
      j == firstNotFinished(segs, i, now)
  IN /\ currentSegmentIndex' = j
     /\ \A k \in i..(j - 1) : ~flagAt(segmentActivated', k)
     /\ \A p \in positionsOf("segment:active")' : emitted'[p].payload.index = j
     /\ published("timer:configure")' <=> published("segment:active")'
     /\ IF j < Len(segs) /\ ~segs[j + 1].manualStart
           /\ parseTime(segs[j + 1].startTime) <= now
          THEN /\ isActive'
               /\ published("segment:active")'
               /\ payloadOf("segment:active")'.elapsedMinutes =
                    now - parseTime(segs[j + 1].startTime)
               /\ flagAt(segmentActivated', j)
          ELSE /\ ~isActive'
               /\ ~published("segment:active")'

\* C12: a tick (the interval's, the post-completion one or the load-time one)
\* that finds the Scheduled current segment at or after the end of its window
\* skips it without activating it, moves currentSegmentIndex past the whole
\* chain of finished segments in the same invocation, and activates the first
\* segment after the chain if its window contains the wall clock
C12_TickSkipsFinished ==
  [][ /\ (/\ lastOp' \in TickOps
          /\ ~userPaused /\ ~isActive
          /\ currentSegmentIndex < Len(segments)
          /\ ~segments[currentSegmentIndex + 1].manualStart
          /\ ~flagAt(segmentActivated, currentSegmentIndex)
          /\ minutesOfDay(clock) >= segmentEndTime(segments[currentSegmentIndex + 1]))
         => SkipsFinished(segments, currentSegmentIndex)
      /\ (/\ lastOp' = "load"
          /\ ~segments'[1].manualStart
          /\ minutesOfDay(clock) >= segmentEndTime(segments'[1]))
         => SkipsFinished(segments', 0) ]_vars

\* the 1 Hz tick at 10:20 on the list 10:00/20 then 10:20/20: the first segment
\* was never activated and is skipped, the second is activated in the same tick
C12_Witness ==
  /\ lastOp = "tick"
  /\ clock = At(10, 20)
  /\ Len(segments) = 2
  /\ currentSegmentIndex = 1
  /\ ~flagAt(segmentActivated, 0)
  /\ isActive
  /\ payloadOf("segment:active").index = 1
  /\ payloadOf("segment:active").elapsedMinutes = 0

\* C13: while userPaused is true no tick (the interval's, the post-completion
\* re-evaluation, or one that runs in a handler that found userPaused set)
\* activates a segment or moves currentSegmentIndex, and userPaused, once true,
\* stays true through every step that is neither a user start nor a load
C13_PausedIsSticky ==
  [][ /\ (userPaused /\ lastOp' \in TickOps) =>
           /\ currentSegmentIndex' = currentSegmentIndex
           /\ isActive' = isActive
           /\ segmentActivated' = segmentActivated
           /\ ~published("segment:active")'
      /\ (userPaused /\ lastOp' \notin {"userStart", "load"}) => userPaused' ]_vars

\* the part of C13 about the ticks alone
C13_TicksBlockedWhilePaused ==
  [][(userPaused /\ lastOp' \in TickOps) =>
       /\ currentSegmentIndex' = currentSegmentIndex
       /\ isActive' = isActive
       /\ segmentActivated' = segmentActivated
       /\ ~published("segment:active")']_vars

\* the steps that deliver timer:start to SegmentManager.handleManualStart
StartOps == {"userStart", "autoStart"}

\* C14: while the current segment is Manual a tick (the interval's, the
\* post-completion one, the load-time one) changes nothing in the scheduler and
\* publishes nothing, whatever the wall clock; a Manual segment is activated
\* only in a step in which the user asks for a start
C14_ManualNeverTicked ==
  [][ /\ (/\ lastOp' \in TickOps
          /\ currentSegmentIndex < Len(segments)
          /\ segments[currentSegmentIndex + 1].manualStart)
         => /\ currentSegmentIndex' = currentSegmentIndex
            /\ isActive' = isActive
            /\ segments' = segments
            /\ segmentActivated' = segmentActivated
            /\ userPaused' = userPaused
            /\ timeouts' = timeouts
            /\ emitted' = <<>>
      /\ (lastOp' = "load" /\ segments'[1].manualStart)
         => /\ currentSegmentIndex' = 0
            /\ ~isActive'
            /\ ~flagAt(segmentActivated', 0)
            /\ ~published("segment:active")'
            /\ ~published("timer:configure")'
      /\ (published("segment:active")' /\ payloadOf("segment:active")'.segment.manualStart)
         => /\ lastOp' = "userStart"
            /\ published("timer:start")' ]_vars

\* C14, the part the code keeps: no tick touches a Manual current segment, and
\* a Manual segment is activated only in a step that delivers timer:start (the
\* user's, or a deferred start of the scheduler)
C14_TickLeavesManualAlone ==
  [][ /\ (/\ lastOp' \in TickOps
          /\ currentSegmentIndex < Len(segments)
          /\ segments[currentSegmentIndex + 1].manualStart)
         => /\ currentSegmentIndex' = currentSegmentIndex
            /\ isActive' = isActive
            /\ segments' = segments
            /\ segmentActivated' = segmentActivated
            /\ userPaused' = userPaused
            /\ timeouts' = timeouts
            /\ emitted' = <<>>
      /\ (lastOp' = "load" /\ segments'[1].manualStart)
         => /\ currentSegmentIndex' = 0
            /\ ~isActive'
            /\ ~flagAt(segmentActivated', 0)
            /\ ~published("segment:active")'
            /\ ~published("timer:configure")'
      /\ (published("segment:active")' /\ payloadOf("segment:active")'.segment.manualStart)
         => /\ lastOp' \in StartOps
            /\ published("timer:start")' ]_vars

\* the 1 Hz tick 20 minutes after the time of the Manual single timer
\* s=m,10:00,20 (start 09:40): the segment is still waiting for its start request
C14_ManualStillWaiting ==
  /\ lastOp = "tick"
  /\ loadedConfig = parseSingleTimer("m", HM(10, 0), 20, "down")
  /\ clock = At(10, 0)
  /\ currentSegmentIndex = 0
  /\ segments[1].manualStart
  /\ segments[1].startTime = HM(9, 40)
  /\ ~isActive
  /\ ~userPaused
  /\ ~flagAt(segmentActivated, 0)

\* C15: a start request that arrives while isActive is true activates nothing:
\* currentSegmentIndex, isActive, the list and the flags are unchanged and no
\* timer:configure or segment:active is published; a user's request also
\* leaves the pending deferred start as it was (a deferred start that fires
\* consumes its own handle before it delivers the request)
C15_StartWhileActiveIgnored ==
  [][(isActive /\ lastOp' \in StartOps) =>
       /\ currentSegmentIndex' = currentSegmentIndex
       /\ isActive'
       /\ segments' = segments
       /\ segmentActivated' = segmentActivated
       /\ ~published("timer:configure")'
       /\ ~published("segment:active")'
       /\ timeouts' \subseteq timeouts
       /\ lastOp' = "userStart" =>
            /\ autoStartTimeout' = autoStartTimeout
            /\ timeouts' = timeouts]_vars

\* the user starts while the single Scheduled segment is active and its
\* deferred start is still pending
C15_Witness ==
  /\ lastOp = "userStart"
  /\ before.isActive
  /\ isActive
  /\ Len(segments) = 1
  /\ ~segments[1].manualStart
  /\ autoStartTimeout # 0
  /\ autoStartTimeout \in timeouts
  /\ ~published("segment:active")

\* C16: while a segment is active and its run is running, a further start
\* signal on the bus (a user start, or a deferred start of the scheduler) leaves
\* the run's timing state as it is: segmentStartMs and manualRun
C16_NoDoubleStart ==
  [][(isActive /\ running /\ lastOp' \in StartOps) =>
       /\ running'
       /\ segmentStartMs' = segmentStartMs
       /\ manualRun' = manualRun]_vars

\* the default segment of createManualTimer, created at wall clock clk
adHocSegment(clk) ==
  [ startTime |-> clockTimeStr(clk), durationSec |-> 2400, durationMinutes |-> 40,
    mode |-> "down", countDown |-> TRUE, manualStart |-> TRUE, autoStart |-> <<>> ]

\* C17: a start request with no segment active and the schedule exhausted
\* (currentSegmentIndex >= the length of the list, the empty list included)
\* makes the list the one default segment (40 minutes, count down, Manual),
\* points at it and activates it with its full duration
C17_StartWhenExhausted ==
  [][(lastOp' \in StartOps /\ ~isActive /\ currentSegmentIndex >= Len(segments)) =>
       /\ segments' = <<adHocSegment(clock)>>
       /\ currentSegmentIndex' = 0
       /\ isActive'
       /\ flagAt(segmentActivated', 0)
       /\ Cardinality(positionsOf("segment:active")') = 1
       /\ payloadOf("segment:active")'.index = 0
       /\ payloadOf("segment:active")'.segment = adHocSegment(clock)
       /\ payloadOf("timer:configure")'.segmentDuration = 2400
       /\ payloadOf("timer:configure")'.countDown
       /\ segmentDurationSec' = 2400
       /\ ~published("schedule:completed")']_vars

\* the user starts at 10:25 after both segments of the list have completed or
\* been skipped: the default segment is the list and is active
C17_Witness ==
  /\ lastOp = "userStart"
  /\ Len(loadedConfig.segments) = 2
  /\ clock = At(10, 25)
  /\ segments = <<adHocSegment(clock)>>
  /\ currentSegmentIndex = 0
  /\ isActive
  /\ ~before.isActive
  /\ running

\* C18: after a completion has moved currentSegmentIndex, either segments
\* remain, one re-evaluation tick is scheduled and no schedule:completed is
\* published, or none remains, schedule:completed is published exactly once and
\* no re-evaluation is scheduled
C18_AfterCompletion ==
  [][lastOp' = "completed" =>
       IF currentSegmentIndex' < Len(segments')
         THEN /\ reticks' = reticks + 1
              /\ ~published("schedule:completed")'
         ELSE /\ reticks' = reticks
              /\ Cardinality(positionsOf("schedule:completed")') = 1]_vars

\* the first of two segments has completed: one re-evaluation is pending and
\* the schedule is not declared complete
C18_Witness ==
  /\ lastOp = "completed"
  /\ Len(segments) = 2
  /\ currentSegmentIndex = 1
  /\ reticks = 1
  /\ ~published("schedule:completed")
  /\ published("segment:completed")

\* C19: a frame at which the run has reached its nominal duration publishes the
\* completion signal exactly once, with the duration in minutes and the
\* direction, and leaves the run stopped (not running, no start instant),
\* whether the run is manual or scheduled; the signal is published by no other
\* step, so not for a run that was stopped nor while nothing is running
C19_CompletionOncePerRun ==
  [][ /\ lastOp' = "completed" =>
           /\ Cardinality(positionsOf("segment:completed")') = 1
           /\ payloadOf("segment:completed")'.duration = roundMinutes(segmentDurationSec)
           /\ payloadOf("segment:completed")'.mode = (IF countDown THEN "down" ELSE "up")
           /\ ~running'
           /\ ~manualRun'
           /\ segmentStartMs' = <<>>
      /\ published("segment:completed")' =>
           /\ lastOp' = "completed"
           /\ running
           /\ Len(segmentStartMs) > 0
           /\ elapsedSec(State) >= segmentDurationSec ]_vars

\* the fields of TimerCore a stop is about
timerFields(s) ==
  [ running |-> s.running, manualRun |-> s.manualRun,
    segmentStartMs |-> s.segmentStartMs,
    segmentDurationSec |-> s.segmentDurationSec, countDown |-> s.countDown ]

\* C20: a stop in any state, running or not, leaves running false with no
\* start instant and no manual mark, and the configured duration and direction
\* as they were; a second stop right after it changes none of these
C20_StopIdempotent ==
  [][lastOp' = "userStop" =>
       /\ ~running'
       /\ ~manualRun'
       /\ segmentStartMs' = <<>>
       /\ segmentDurationSec' = segmentDurationSec
       /\ countDown' = countDown
       /\ autoStartTime' = autoStartTime
       /\ published("timer:stopped")'
       /\ timerFields(stopSegment(stopSegment(State))) = timerFields(stopSegment(State))
       /\ timerFields(stopSegment(State)) =
            [timerFields(State) EXCEPT !.running = FALSE, !.manualRun = FALSE,
                                       !.segmentStartMs = <<>>]]_vars

\* a stop while nothing was running and the user had already stopped, with a
\* 30-minute count-up configuration in the timer
C20_Witness ==
  /\ lastOp = "userStop"
  /\ ~before.running
  /\ before.userPaused
  /\ ~running
  /\ segmentStartMs = <<>>
  /\ segmentDurationSec = 1800
  /\ ~countDown

\* the calls of the last publish made by emit itself, not by a publish nested
\* in a handler
directCalls(b) == SelectSeq(b.calls, LAMBDA c : c.depth = 1)

\* C21: when a handler raises during a publish, the handlers subscribed after
\* it for the same event are still called in that publish, the publish returns
\* to the publisher without an exception, and the failure changes no
\* subscription list: the only listeners a publish removes are one-shot
\* listeners whose handler returned
C21_FaultIsolation ==
  [][bus'.op = "emit" =>
       LET listeners == bus.events[bus'.event]
       IN /\ ~bus'.thrown
          /\ bus'.depth = 0
          /\ Len(directCalls(bus')) = Len(listeners)
          /\ \A i \in 1..Len(listeners) :
               throws(listeners[i].cb) =>
                 \A j \in (i + 1)..Len(listeners) :
                   directCalls(bus')[j].listener = listeners[j]
          /\ \A e \in BusEvents :
               bus'.events[e] =
                 SelectSeq(bus.events[e],
                           LAMBDA l : ~(e = bus'.event /\ l.wrapper # 0 /\ ~throws(l.cb)))]_vars

\* a publish to three listeners of which the first raised: one error was
\* logged, the two after it were called, the three are still subscribed
C21_Witness ==
  /\ bus.op = "emit"
  /\ Len(directCalls(bus)) = 3
  /\ throws(directCalls(bus)[1].listener.cb)
  /\ ~throws(directCalls(bus)[2].listener.cb)
  /\ ~throws(directCalls(bus)[3].listener.cb)
  /\ bus.errors = 1
  /\ Len(bus.events[bus.event]) = 3
  /\ ~bus.thrown

\* C22: a publish calls the listeners subscribed to its event in the order in
\* which they were subscribed, each once per registration, and no call made
\* during the publish (nested publishes included) goes to a listener of a
\* different event
C22_DeliveryOrder ==
  [][bus'.op = "emit" =>
       LET listeners == bus.events[bus'.event]
       IN /\ Len(directCalls(bus')) = Len(listeners)
          /\ \A i \in 1..Len(listeners) :
               /\ directCalls(bus')[i].listener = listeners[i]
               /\ directCalls(bus')[i].event = bus'.event
          /\ \A i \in 1..Len(bus'.calls) :
               /\ bus'.calls[i].event = bus'.event
               /\ \E j \in 1..Len(listeners) : listeners[j] = bus'.calls[i].listener]_vars

\* a publish of timer:stop with two different listeners on it and a third on
\* timer:start: the two were called in subscription order, the third was not
C22_Witness ==
  /\ bus.op = "emit"
  /\ bus.event = "timer:stop"
  /\ Len(bus.events["timer:start"]) = 1
  /\ Len(bus.events["timer:stop"]) = 2
  /\ Len(bus.calls) = 2
  /\ bus.calls[1].listener = bus.events["timer:stop"][1]
  /\ bus.calls[2].listener = bus.events["timer:stop"][2]
  /\ bus.calls[1].listener # bus.calls[2].listener
  /\ bus.events["timer:start"][1] \notin {bus.calls[1].listener, bus.calls[2].listener}

\* C23: a one-shot listener is called for at most one publish: not twice
\* during one publish (nested publishes included), not in a publish after one
\* that called it, and after the publish that called it it is in no list
C23_OnceAtMostOnce ==
  [][bus'.op = "emit" =>
       \A w \in wrappersIn(bus'.calls) :
         /\ Cardinality({i \in 1..Len(bus'.calls) : bus'.calls[i].listener.wrapper = w}) = 1
         /\ ~bus.onceCalled[w]
         /\ \A e \in BusEvents : \A i \in 1..Len(bus'.events[e]) :
              bus'.events[e][i].wrapper # w]_vars

\* C24: an activation sets a deferred start exactly when it is a tick's
\* activation of a Scheduled segment.  An activation of a Manual segment, and
\* one made by a start request (no minutes elapsed), sets no timeout; a tick's
\* (the interval's, the post-completion or the load-time one) activation of a
\* Scheduled segment sets exactly one, held in autoStartTimeout
C24_DeferredStartOnlyWhenScheduled ==
  [][published("segment:active")' =>
       LET segment == payloadOf("segment:active")'.segment
       IN IF segment.manualStart \/ lastOp' \in StartOps
            THEN /\ timeouts' \subseteq timeouts
                 /\ lastOp' = "userStart" => autoStartTimeout' = autoStartTimeout
            ELSE /\ Cardinality(timeouts' \ timeouts) = 1
                 /\ timeouts \subseteq timeouts'
                 /\ autoStartTimeout' \in timeouts' \ timeouts]_vars

\* the part of C24 about ticks and about Manual segments
C24_ExceptStartOfScheduled ==
  [][published("segment:active")' =>
       LET segment == payloadOf("segment:active")'.segment
       IN IF segment.manualStart
            THEN /\ timeouts' \subseteq timeouts
                 /\ lastOp' = "userStart" => autoStartTimeout' = autoStartTimeout
            ELSE lastOp' \notin StartOps =>
                   /\ Cardinality(timeouts' \ timeouts) = 1
                   /\ timeouts \subseteq timeouts'
                   /\ autoStartTimeout' \in timeouts' \ timeouts]_vars

\* C25: a user stop never moves currentSegmentIndex, and a completion signal
\* that is handled while isActive is false (the segment was stopped, or is not
\* the one the run belongs to) neither moves currentSegmentIndex nor clears
\* userPaused, so the pointer moves at most once for a run
C25_StopCompletionRace ==
  [][ /\ lastOp' = "userStop" => currentSegmentIndex' = currentSegmentIndex
      /\ (published("segment:completed")' /\ ~isActive) =>
           /\ currentSegmentIndex' = currentSegmentIndex
           /\ userPaused' = userPaused ]_vars

\* the minutes that had elapsed when the current segment was joined: what
\* activateSegment took off the duration it handed to the timer
joinedAfter == (segments[currentSegmentIndex + 1].durationSec - segmentDurationSec) \div 60

\* C26: when a deferred start of the scheduler starts the run of a segment
\* that was joined mid-session, the start instant is backdated by the minutes
\* that had elapsed at the join; for a segment joined on time it is the current
\* time
C26_BackdatedStart ==
  [][(/\ lastOp' = "autoStart"
      /\ isActive
      /\ currentSegmentIndex < Len(segments)
      /\ ~segments[currentSegmentIndex + 1].manualStart
      /\ Len(autoStartTime) > 0)
     => IF joinedAfter > 0
          THEN segmentStartMs'[1] <= nowMs(clock) - joinedAfter * 60000
          ELSE segmentStartMs' = <<nowMs(clock)>>]_vars

\* C27: while a run is running, the elapsed value of drawTimerArc is
\* now - start clamped to 0..segmentDurationSec: never negative, also when the
\* clock reads earlier than the start instant, never above the duration, and
\* the frame completes the run exactly when now - start >= segmentDurationSec
C27_ElapsedClamped ==
  (running /\ Len(segmentStartMs) > 0) =>
    LET raw == (nowMs(clock) - segmentStartMs[1]) \div 1000
    IN /\ elapsedSec(State) >= 0
       /\ clamped(State) >= 0
       /\ clamped(State) <= segmentDurationSec
       /\ clamped(State) =
            (IF raw < 0 THEN 0 ELSE IF raw > segmentDurationSec THEN segmentDurationSec
             ELSE raw)
       /\ (clamped(State) >= segmentDurationSec) <=> (raw >= segmentDurationSec)

\* a run started at 15:00 is drawn after the clock has been set back to 14:30:
\* nothing has elapsed
C27_Witness ==
  /\ running
  /\ lastOp = "clockBack"
  /\ segmentStartMs = <<nowMs(At(15, 0))>>
  /\ clock = At(14, 30)
  /\ elapsedSec(State) = 0
  /\ clamped(State) = 0

\* C28: the scheduler has at most one live 1 Hz interval, the one held in
\* tickInterval: exactly one after every load, none after a reset
C28_OneTickSource ==
  /\ intervals <= 1
  /\ intervals = (IF tickInterval THEN 1 ELSE 0)
  /\ lastOp = "load" => intervals = 1
  /\ lastOp = "reset" => intervals = 0

\* a reset of a scheduler that had loaded a configuration: its interval is gone
C28_Witness ==
  /\ lastOp = "reset"
  /\ loadedConfig # EmptyConfig
  /\ intervals = 0
  /\ ~tickInterval
  /\ segments = <<>>

\* C29: whatever state the core is in (idle, paused by the user, schedule
\* exhausted, reset, after a duplicate completion), a user's start request
\* leaves isActive true and currentSegmentIndex on a segment of the list
C29_StartAlwaysRecovers ==
  [][lastOp' = "userStart" =>
       /\ isActive'
       /\ currentSegmentIndex' < Len(segments')]_vars

\* a user start once the pointer had left the loaded two-segment list (the
\* schedule exhausted, a duplicate completion, or a reset): an ad-hoc segment
\* replaces the list
C29_Witness ==
  /\ lastOp = "userStart"
  /\ ~before.isActive
  /\ isActive
  /\ segments = <<adHocSegment(clock)>>
  /\ currentSegmentIndex = 0
  /\ Len(loadedConfig.segments) = 2
  /\ Len(segmentActivated) = 2

\* C30: after a load, every segment built from a multi-segment payload is
\* Scheduled (manualStart false, autoStart its configured time) however close
\* that time is to now, and the segment built from a single-timer payload is
\* Manual exactly when the payload's manualStart is true or it has no autoStart
C30_Classification ==
  lastOp = "load" =>
    IF Len(loadedConfig.segments) > 0
      THEN /\ Len(segments) = Len(loadedConfig.segments)
           /\ \A k \in 1..Len(segments) :
                /\ ~segments[k].manualStart
                /\ segments[k].autoStart = <<loadedConfig.segments[k].time>>
      ELSE loadedConfig.segmentDuration # 0 =>
           /\ Len(segments) = 1
           /\ segments[1].manualStart
                <=> (loadedConfig.manualStart \/ Len(loadedConfig.autoStart) = 0)

\* the fields of the scheduler and of the timer a tick can write
tickFields ==
  << segments, currentSegmentIndex, isActive, scheduleStarted, userPaused,
     segmentActivated, tickInterval, autoStartTimeout, timerRunning,
     running, manualRun, segmentStartMs, segmentDurationSec, countDown,
     autoStartTime, timeouts, intervals >>

\* C31: loading a payload with no segments (and no single-timer duration)
\* completes with currentSegmentIndex 0, isActive false and userPaused false
\* and activates nothing; no tick that follows, as long as that payload is the
\* loaded one, activates a segment; and a tick on an empty list changes nothing
C31_EmptyLoad ==
  [][ /\ (lastOp' = "load" /\ loadedConfig' = EmptyConfig) =>
           /\ currentSegmentIndex' = 0
           /\ ~isActive'
           /\ ~userPaused'
           /\ tickInterval'
           /\ ~published("segment:active")'
           /\ ~published("timer:configure")'
           /\ published("segments:configured")'
      /\ (lastOp' \in TickOps /\ loadedConfig = EmptyConfig) =>
           /\ ~published("segment:active")'
           /\ isActive' = isActive
           /\ currentSegmentIndex' = currentSegmentIndex
      /\ (lastOp' \in TickOps /\ segments = <<>>) =>
           /\ UNCHANGED tickFields
           /\ emitted' = <<>> ]_vars

\* the empty payload is loaded over a schedule that was active, and the 1 Hz
\* interval has ticked on what the load built
C31_Witness ==
  /\ lastOp = "tick"
  /\ loadedConfig = EmptyConfig
  /\ Len(segments) = 1
  /\ currentSegmentIndex = 0
  /\ ~isActive
  /\ ~userPaused
  /\ running

\* a re-evaluation timeout that fires after a reset: the tick on the empty list
C31_TickOnEmptyList == lastOp = "retick" /\ segments = <<>>

\* C32: a deferred start is outstanding only while isActive is true, and it is
\* the one autoStartTimeout refers to
C32_NoOrphanedDeferredStart ==
  timeouts # {} => (isActive /\ timeouts = {autoStartTimeout})

\* C32, the part the code keeps: a user stop leaves no deferred start behind
\* that the handle referred to
C32_StopCancelsReferenced ==
  [][lastOp' = "userStop" =>
       (autoStartTimeout' = 0 /\ autoStartTimeout \notin timeouts')]_vars

\* C33: between event deliveries, a running TimerCore implies that the
\* SegmentManager has a segment in progress
C33_RunningImpliesActive == running => isActive

\* C33, the part the code keeps: a user stop and a completion stop the run in
\* the step that clears isActive
C33_StopAndCompletionStopTheRun ==
  [][lastOp' \in {"userStop", "completed"} => (~running' /\ ~isActive')]_vars

\* C34: every segment of the list below currentSegmentIndex has its activated
\* flag set, or is over at the wall clock (it was skipped by a tick)
C34_NoSegmentPassedUnprocessed ==
  \A k \in 0..(currentSegmentIndex - 1) :
    k < Len(segments) =>
      \/ flagAt(segmentActivated, k)
      \/ minutesOfDay(clock) >= segmentEndTime(segments[k + 1])

\* C34, the part the code keeps: a tick moves the pointer only past segments
\* that are over at the wall clock
C34_TickPassesOnlyExpired ==
  [][lastOp' \in TickOps =>
       \A k \in currentSegmentIndex..(currentSegmentIndex' - 1) :
         minutesOfDay(clock) >= segmentEndTime(segments[k + 1])]_vars

\* C35: whenever isActive is true, currentSegmentIndex is an index of the
\* segment list and the activated flag of that segment is set
C35_ActiveIsInBoundsAndFlagged ==
  isActive =>
    /\ 0 <= currentSegmentIndex
    /\ currentSegmentIndex < Len(segments)
    /\ flagAt(segmentActivated, currentSegmentIndex)

\* a tick has skipped the first segment, which is over, and activated the second
C35_Witness ==
  /\ isActive
  /\ lastOp \in TickOps
  /\ Len(segments) = 2
  /\ currentSegmentIndex = 1
  /\ ~flagAt(segmentActivated, 0)
  /\ flagAt(segmentActivated, 1)

\* C36: between event deliveries, userPaused true implies that the TimerCore
\* is not running
C36_PausedImpliesNotRunning == userPaused => ~running

\* a user stop has stopped a run and set userPaused in the same step
C36_Witness ==
  /\ lastOp = "userStop"
  /\ before.running
  /\ ~before.userPaused
  /\ userPaused
  /\ ~running

\* C37: schedule:completed is published only in a completion step, the one
\* that moves currentSegmentIndex onto the end of the list; a tick that skips
\* finished segments up to the end of the list leaves currentSegmentIndex at
\* the length of the list and isActive false, and publishes neither
\* schedule:completed nor segment:active
C37_ScheduleCompletedOnlyByCompletion ==
  [][ /\ published("schedule:completed")' =>
           /\ lastOp' = "completed"
           /\ currentSegmentIndex' = Len(segments')
           /\ currentSegmentIndex' = currentSegmentIndex + 1
      /\ (/\ lastOp' \in TickOps \cup {"load"}
          /\ currentSegmentIndex' = Len(segments')
          /\ Len(segments') > 0
          /\ lastOp' = "load" \/ currentSegmentIndex < Len(segments)) =>
           /\ ~isActive'
           /\ ~published("schedule:completed")'
           /\ ~published("segment:active")' ]_vars

\* C37, the part the code keeps: schedule:completed is published only in a
\* completion step that leaves currentSegmentIndex at or past the end of the
\* list, and a tick that skips finished segments up to the end publishes nothing
C37_ExceptStaleCompletion ==
  [][ /\ published("schedule:completed")' =>
           /\ lastOp' = "completed"
           /\ currentSegmentIndex' >= Len(segments')
           /\ currentSegmentIndex' = currentSegmentIndex + 1
      /\ (/\ lastOp' \in TickOps \cup {"load"}
          /\ currentSegmentIndex' = Len(segments')
          /\ Len(segments') > 0
          /\ lastOp' = "load" \/ currentSegmentIndex < Len(segments)) =>
           /\ ~isActive'
           /\ emitted' \in {<<>>, <<[ name |-> "segments:configured",
                                     payload |-> [ segments |-> segments',
                                                   totalSegments |-> Len(segments') ] ]>>} ]_vars

\* a tick has skipped every segment of a two-segment list
C37_AllSkipped ==
  /\ lastOp \in TickOps \cup {"load"}
  /\ Len(segments) = 2
  /\ currentSegmentIndex = 2
  /\ ~flagAt(segmentActivated, 0)
  /\ ~flagAt(segmentActivated, 1)

\* the segment loadConfig builds when the payload has neither segments nor a
\* segmentDuration
defaultSegment ==
  [ startTime |-> HM(0, 0), durationMinutes |-> 40, durationSec |-> 2400,
    mode |-> "down", countDown |-> TRUE, manualStart |-> TRUE, autoStart |-> <<>> ]

\* C38: after a load the segment list is not empty, and is the one default
\* segment (Manual, count down, 40 minutes = 2400 seconds) when the payload has
\* neither segments nor a segmentDuration; the list becomes empty only by reset
C38_LoadedListNonEmpty ==
  [][ /\ lastOp' = "load" =>
           /\ Len(segments') > 0
           /\ (Len(loadedConfig'.segments) = 0 /\ loadedConfig'.segmentDuration = 0) =>
                segments' = <<defaultSegment>>
      /\ segments' = <<>> => (segments = <<>> \/ lastOp' = "reset") ]_vars

\* the payload with nothing in it is loaded over an active schedule
C38_Witness ==
  /\ lastOp = "load"
  /\ loadedConfig = EmptyConfig
  /\ before.isActive
  /\ segments = <<defaultSegment>>
  /\ segments[1].manualStart
  /\ segments[1].durationSec = 2400

\* C39: in every activation the tick performs (the interval's, the
\* post-completion one, the load-time one) the duration handed to the timer is
\* durationSec - 60 * elapsedMinutes, it is positive and at most durationSec,
\* and the timer takes it as it is (no fallback to the 2400-second default)
C39_JoinDurationPositive ==
  [][(lastOp' \in TickOps \cup {"load"} /\ published("timer:configure")') =>
       LET segment == segments'[currentSegmentIndex' + 1]
           elapsedMinutes == payloadOf("segment:active")'.elapsedMinutes
           nominal == payloadOf("timer:configure")'.segmentDuration
       IN /\ nominal = segment.durationSec - 60 * elapsedMinutes
          /\ 0 < nominal
          /\ nominal <= segment.durationSec
          /\ segmentDurationSec' = nominal]_vars

\* a tick joins a 30.5-minute segment (31 minutes after rounding) in its last
\* minute: 30 seconds are left
C39_Witness ==
  /\ lastOp \in TickOps \cup {"load"}
  /\ published("timer:configure")
  /\ segments[1].durationSec = 1830
  /\ segments[1].durationMinutes = 31
  /\ payloadOf("segment:active").elapsedMinutes = 30
  /\ segmentDurationSec = 30

====
